---------------------------- MODULE Spec2Model ----------------------------
(***************************************************************************)
(* Knowledge-graph builder (scripts/build-knowledge-graph.js).             *)
(*                                                                         *)
(* Strings.  A JavaScript string is modelled as a sequence of tokens.  A   *)
(* token is either one character on which the code's character-wise       *)
(* operations act (a Latin letter, a white-space character, the katakana   *)
(* middle dot U+30FB written "MIDDOT", the underscore), or one maximal run *)
(* of kana/kanji characters, written in romaji ("seichou").  toLowerCase   *)
(* and the replacement of [\s MIDDOT] leave kana/kanji untouched, so a run *)
(* is a fixed point of both and can stay opaque.  Two strings are equal    *)
(* iff their token sequences are equal, provided no two runs are adjacent  *)
(* (WellFormed).                                                           *)
(*                                                                         *)
(* A JavaScript value that is not a string is a sequence whose first token *)
(* starts with "#": <<"#function", ...>>, <<"#object", ...>>.              *)
(***************************************************************************)
EXTENDS Integers, Sequences, FiniteSets, TLC

VARIABLES
    norm,       \* the Label Normalizer applied to one input label
    employees,  \* the parsed content of data/employees.json
    env,        \* process.env / argv: SKIP_AI, API_KEY, PROJECT_ID, ENDPOINT_ID, DATA_FILE
    pc,         \* position of main() / enhanceWithAI()
    graph,      \* { nodes, edges }
    phase1,     \* history: the graph as buildMechanicalGraph returned it
    url,        \* the endpoint enhanceWithAI selected
    pairs,      \* enhanceWithAI: all i<j pairs of active employees
    batchStart, \* enhanceWithAI: loop variable (0-based index into pairs)
    aiEdges,    \* enhanceWithAI: edges collected so far
    inFlight,   \* number of fetch requests issued and not yet settled
    requestLog, \* history: one entry per fetch issued
    batchLog,   \* history: one entry per settled batch
    delayed,    \* history: batches whose inter-batch timer has fired
    output,     \* what fs.writeFileSync has written to OUTPUT_FILE
    issue       \* process-issue.js: the last operation applied to the store

(***************************************************************************)
(* Characters                                                              *)
(***************************************************************************)
\* String.prototype.toLowerCase, per character
LowerOf(c) ==
    CASE c = "A" -> "a"
      [] c = "I" -> "i"
      [] c = "W" -> "w"
      [] c = "S" -> "s"
      [] c = "C" -> "c"
      [] OTHER -> c

\* the class [\s MIDDOT] of the regular expression in normalizeForId:
\* " " is U+0020, "IDEOSP" is the ideographic space U+3000 (matched by \s)
SeparatorChars == {" ", "IDEOSP", "MIDDOT"}

\* the kana/kanji runs that occur in the model's labels
KanaRuns ==
    {"komyunikeeshonnouryoku", "komyunikeeshonryoku", "chiimukomyunikeeshon",
     "komyunikeeshon", "mondaikaiketsunouryoku", "mondaikaiketsu",
     "jouhoushuushuuryoku", "jouhoushuushuu", "jikoseichou", "jishinnoseichou",
     "jikoseichounokikai", "seichou", "koukenkan", "kouken", "kyouchou",
     "kyouchousei", "seisei", "gijutsu", "katsuyou",
     "atarashiigijutsunoshuutoku", "atarashiichishiki", "gijutsunoshuutoku",
     "atarashiichishikinoshuutoku", "atarashiichishikiyasukirunoshuutoku",
     "atarashiichishikiyagijutsunoshuutoku",
     "atarashiichishikiyasukiruwoshuutokusurukoto", "chiimunikoukensurukoto",
     "chiimuenokouken", "soshikienokouken", "jishinnoseichouwojikkandekirukoto",
     "jikoseichounojikkan", "shuuikaranoshousan", "shuuikaranokansha",
     "chiimumenbaakaranokansha", "tashakaranoshousan", "kansha",
     "purojekutonoseikou", "chiimunoseikou", "soshikimokuhyounotassei",
     "infurasekkei"}

WellFormed(s) ==
    \A i \in 1..(Len(s) - 1) : ~(s[i] \in KanaRuns /\ s[i + 1] \in KanaRuns)

IsString(v) ==
    v = <<>> \/ v[1] \notin {"#function", "#object", "#TypeError", "#number"}

(***************************************************************************)
(* The synonym table: own properties of the object literal synonymMap      *)
(***************************************************************************)
Word(w) == <<w>>

AIgijutsu == <<"A", "I", "gijutsu">>
NewKnowledge == <<"atarashiichishiki", "MIDDOT", "gijutsunoshuutoku">>

synonymMap ==
    (Word("komyunikeeshonnouryoku") :> Word("komyunikeeshon"))
 @@ (Word("komyunikeeshonryoku") :> Word("komyunikeeshon"))
 @@ (Word("chiimukomyunikeeshon") :> Word("komyunikeeshon"))
 @@ (Word("mondaikaiketsunouryoku") :> Word("mondaikaiketsu"))
 @@ (Word("jouhoushuushuuryoku") :> Word("jouhoushuushuu"))
 @@ (Word("jikoseichou") :> Word("seichou"))
 @@ (Word("jishinnoseichou") :> Word("seichou"))
 @@ (Word("jikoseichounokikai") :> Word("seichou"))
 @@ (Word("koukenkan") :> Word("kouken"))
 @@ (Word("kyouchou") :> Word("kyouchousei"))
 @@ (<<"seisei", "A", "I">> :> AIgijutsu)
 @@ (<<"A", "I", "katsuyou">> :> AIgijutsu)
 @@ (Word("atarashiigijutsunoshuutoku") :> NewKnowledge)
 @@ (Word("atarashiichishikinoshuutoku") :> NewKnowledge)
 @@ (Word("atarashiichishikiyasukirunoshuutoku") :> NewKnowledge)
 @@ (Word("atarashiichishikiyagijutsunoshuutoku") :> NewKnowledge)
 @@ (Word("atarashiichishikiyasukiruwoshuutokusurukoto") :> NewKnowledge)
 @@ (Word("chiimunikoukensurukoto") :> Word("chiimuenokouken"))
 @@ (Word("soshikienokouken") :> Word("chiimuenokouken"))
 @@ (Word("jishinnoseichouwojikkandekirukoto") :> Word("jikoseichounojikkan"))
 @@ (Word("shuuikaranoshousan") :> Word("shuuikaranokansha"))
 @@ (Word("chiimumenbaakaranokansha") :> Word("shuuikaranokansha"))
 @@ (Word("tashakaranoshousan") :> Word("shuuikaranokansha"))
 @@ (Word("kansha") :> Word("shuuikaranokansha"))
 @@ (Word("purojekutonoseikou") :> Word("chiimunoseikou"))
 @@ (Word("soshikimokuhyounotassei") :> Word("chiimunoseikou"))

SynonymKeys == DOMAIN synonymMap
SynonymValues == {synonymMap[k] : k \in SynonymKeys}

(***************************************************************************)
(* synonymMap is a plain object literal, so synonymMap[label] also finds   *)
(* the properties it inherits from Object.prototype: for those names the   *)
(* lookup yields a function (or, for __proto__, an object), which is       *)
(* truthy and is what `synonymMap[label] || label` evaluates to.           *)
(***************************************************************************)
ConstructorName == <<"c", "o", "n", "s", "t", "r", "u", "c", "t", "o", "r">>
ProtoName == <<"_", "_", "p", "r", "o", "t", "o", "_", "_">>

InheritedKeys == {ConstructorName, ProtoName}

InheritedValue(label) ==
    IF label = ConstructorName THEN <<"#function", "Object">>
    ELSE <<"#object", "Object.prototype">>

\* synonymMap[label]; <<"#undefined">> when there is no such property.
\* A non-string key is converted to a string ("function Object() { ... }",
\* "[object Object]"), which is no property of the table.
Lookup(label) ==
    IF ~IsString(label) THEN <<"#undefined">>
    ELSE IF label \in SynonymKeys THEN synonymMap[label]
    ELSE IF label \in InheritedKeys THEN InheritedValue(label)
    ELSE <<"#undefined">>

\* v || label, for a v that is undefined or truthy
OrElse(v, label) == IF v = <<"#undefined">> THEN label ELSE v

\* mutant: the synonym table is not consulted
normalizeLabel_verbatim(label) == label

normalizeLabel(label) == OrElse(Lookup(label), label)

\* s.replace(/[\s MIDDOT]/g, '_')
ReplaceSeparators(s) ==
    [i \in 1..Len(s) |-> IF s[i] \in SeparatorChars THEN "_" ELSE s[i]]

\* s.toLowerCase()
ToLowerCase(s) == [i \in 1..Len(s) |-> LowerOf(s[i])]

TypeError == <<"#TypeError">>

\* normalizeLabel(label).replace(...).toLowerCase(): calling .replace on a
\* value that is not a string raises a TypeError
Slug(canonical) ==
    IF IsString(canonical) THEN ToLowerCase(ReplaceSeparators(canonical))
    ELSE TypeError

normalizeForId(label) == Slug(normalizeLabel(label))

(***************************************************************************)
(* Employee records.  isActive is "true", "false" or "missing"; each of    *)
(* the four attribute lists is [kind, items]: kind "absent" when the       *)
(* enclosing block or the list itself is missing (or holds a falsy value), *)
(* "list" for an array, "notalist" for a truthy value that is no array (a  *)
(* string, a number, an object).                                           *)
(***************************************************************************)
\* mutant: no record is filtered out
IsActive_everyone(e) == TRUE

\* mutant: truthiness test (a record without isActive is dropped)
IsActive_truthy(e) == e.isActive = "true"

\* e.isActive !== false
IsActive(e) == e.isActive # "false"

Absent == [kind |-> "absent", items |-> <<>>]
NotAList == [kind |-> "notalist", items |-> <<>>]
List(items) == [kind |-> "list", items |-> items]

\* mutant: the dimensions are walked in the opposite order
AttrTypes_reversed == <<"motivation", "interest", "value", "skill">>

\* attrConfig, in the order Object.entries walks it
AttrTypes == <<"skill", "value", "interest", "motivation">>

SubField(e, type) ==
    CASE type = "skill" -> e.dominant_strengths
      [] type = "value" -> e.core_values
      [] type = "interest" -> e.recent_topics_of_interest
      [] type = "motivation" -> e.motivation_triggers

EdgeType(type) ==
    CASE type = "skill" -> "HAS_SKILL"
      [] type = "value" -> "VALUES"
      [] type = "interest" -> "INTERESTED_IN"
      [] type = "motivation" -> "MOTIVATED_BY"

\* const fieldData = emp[cfg.field]; if (!fieldData) return;
\* const items = fieldData[cfg.subField] || [];
Items(e, type) ==
    IF SubField(e, type).kind = "list" THEN SubField(e, type).items ELSE <<>>

Includes(seq, x) == \E i \in 1..Len(seq) : seq[i] = x

RECURSIVE Dedupe(_)
\* [...new Set(seq)]: first occurrences, in order
Dedupe(seq) ==
    IF seq = <<>> THEN <<>>
    ELSE LET front == Dedupe(SubSeq(seq, 1, Len(seq) - 1))
             last == seq[Len(seq)]
         IN  IF Includes(front, last) THEN front ELSE Append(front, last)

MapNormalizeLabel(items) == [i \in 1..Len(items) |-> normalizeLabel(items[i])]

\* [...new Set(items.map(normalizeLabel))]
NormalizedItems(e, type) == Dedupe(MapNormalizeLabel(Items(e, type)))

RECURSIVE FilterSeq(_, _)
\* seq.filter(x => other.includes(x))
FilterSeq(seq, other) ==
    IF seq = <<>> THEN <<>>
    ELSE LET front == FilterSeq(SubSeq(seq, 1, Len(seq) - 1), other)
             last == seq[Len(seq)]
         IN  IF Includes(other, last) THEN Append(front, last) ELSE front

RECURSIVE ActiveOf(_)
\* employees.filter(e => e.isActive !== false)
ActiveOf(emps) ==
    IF emps = <<>> THEN <<>>
    ELSE LET front == ActiveOf(SubSeq(emps, 1, Len(emps) - 1))
             last == emps[Len(emps)]
         IN  IF IsActive(last) THEN Append(front, last) ELSE front

PersonId(name) == <<"person:">> \o name
AttrId(slug) == <<"attr:">> \o slug

NoShared == [skills |-> <<>>, values |-> <<>>, interests |-> <<>>]

\* a person node (job, summary and personality are copied through and
\* are left out; it has no categories and no connectedPeople)
PersonNode(e) ==
    [id |-> PersonId(e.name), type |-> "person", label |-> e.name,
     categories |-> <<>>, connectedPeople |-> <<>>]

DimensionEdge(e, nodeId, type) ==
    [source |-> PersonId(e.name), target |-> nodeId, type |-> EdgeType(type),
     weight |-> 1, shared |-> NoShared, direction |-> "", ai_generated |-> FALSE]

\* `${emp.name}->${nodeId}`
EdgeKey(e, nodeId) == e.name \o <<"->">> \o nodeId

\* mutant: pushed without the includes test
AddUnique_always(seq, x) == Append(seq, x)

\* if (!seq.includes(x)) seq.push(x)
AddUnique(seq, x) == IF Includes(seq, x) THEN seq ELSE Append(seq, x)

\* if (!nodeMap.has(nodeId)) { nodes.push({...}); nodeMap.set(nodeId, true) }
\* st is [nodes, edges, nodeMap, edgeKeys, raised]
CreateNode(st, type, item, nodeId) ==
    IF nodeId \in st.nodeMap THEN st
    ELSE [st EXCEPT
             !.nodes = Append(@, [id |-> nodeId, type |-> "attribute",
                                  label |-> item, categories |-> <<type>>,
                                  connectedPeople |-> <<>>]),
             !.nodeMap = @ \cup {nodeId}]

\* nodes.find(n => n.id === nodeId): the index of the first node with that id
FindNode(nodes, nodeId) ==
    CHOOSE i \in 1..Len(nodes) :
        /\ nodes[i].id = nodeId
        /\ \A k \in 1..(i - 1) : nodes[k].id # nodeId

\* mutant: a later reference overwrites the categories
UnionAt_overwrite(nodes, at, type, name) ==
    [nodes EXCEPT ![at].categories = <<type>>,
                  ![at].connectedPeople = AddUnique(@, name)]

\* the category and the member are added to the node found
UnionAt(nodes, at, type, name) ==
    [nodes EXCEPT ![at].categories = AddUnique(@, type),
                  ![at].connectedPeople = AddUnique(@, name)]

UnionNode(st, type, e, nodeId) ==
    [st EXCEPT !.nodes = UnionAt(@, FindNode(@, nodeId), type, e.name)]

\* mutant: the edge is pushed without consulting edgeKeys
AddEdge_unguarded(st, type, e, nodeId) ==
    [st EXCEPT !.edges = Append(@, DimensionEdge(e, nodeId, type))]

\* if (!edgeKeys.has(edgeKey)) { edgeKeys.add(edgeKey); edges.push({...}) }
AddEdge(st, type, e, nodeId) ==
    IF EdgeKey(e, nodeId) \in st.edgeKeys THEN st
    ELSE [st EXCEPT !.edgeKeys = @ \cup {EdgeKey(e, nodeId)},
                    !.edges = Append(@, DimensionEdge(e, nodeId, type))]

UpsertWithId(st, type, e, item, nodeId) ==
    AddEdge(UnionNode(CreateNode(st, type, item, nodeId), type, e, nodeId),
            type, e, nodeId)

UpsertWithSlug(st, type, e, item, slug) ==
    IF st.raised \/ slug = TypeError
    THEN [st EXCEPT !.raised = TRUE]
    ELSE UpsertWithId(st, type, e, item, AttrId(slug))

\* the body of normalizedItems.forEach for one item
UpsertItem(st, type, e, item) ==
    UpsertWithSlug(st, type, e, item, normalizeForId(item))

RECURSIVE UpsertItems(_, _, _, _)
UpsertItems(st, type, e, items) ==
    IF items = <<>> THEN st
    ELSE UpsertItems(UpsertItem(st, type, e, Head(items)), type, e, Tail(items))

\* items.map(normalizeLabel) on a value that has no map method raises a
\* TypeError
MapRaises(e, type) == SubField(e, type).kind = "notalist"

\* the body of activeEmployees.forEach for one employee
UpsertEmployee(st, type, e) ==
    IF st.raised \/ MapRaises(e, type)
    THEN [st EXCEPT !.raised = TRUE]
    ELSE UpsertItems(st, type, e, NormalizedItems(e, type))

RECURSIVE UpsertEmployees(_, _, _)
\* activeEmployees.forEach(emp => ...) for one attribute type
UpsertEmployees(st, type, emps) ==
    IF emps = <<>> THEN st
    ELSE UpsertEmployees(UpsertEmployee(st, type, Head(emps)), type, Tail(emps))

RECURSIVE UpsertTypes(_, _, _)
\* Object.entries(attrConfig).forEach(([type, cfg]) => ...)
UpsertTypes(st, types, emps) ==
    IF types = <<>> THEN st
    ELSE UpsertTypes(UpsertEmployees(st, Head(types), emps), Tail(types), emps)

\* mutant: the labels are compared as written
getAttrs_verbatim(e, type) == Dedupe(Items(e, type))

\* getAttrs(emp, field, subField)
getAttrs(e, type) == NormalizedItems(e, type)

sharedSkills(a, b) == FilterSeq(getAttrs(a, "skill"), getAttrs(b, "skill"))
sharedValues(a, b) == FilterSeq(getAttrs(a, "value"), getAttrs(b, "value"))
sharedInterests(a, b) == FilterSeq(getAttrs(a, "interest"), getAttrs(b, "interest"))

\* mutant: the motivation triggers are counted as well
totalShared_withMotivation(a, b) ==
    Len(sharedSkills(a, b)) + Len(sharedValues(a, b)) + Len(sharedInterests(a, b))
    + Len(FilterSeq(getAttrs(a, "motivation"), getAttrs(b, "motivation")))

totalShared(a, b) ==
    Len(sharedSkills(a, b)) + Len(sharedValues(a, b)) + Len(sharedInterests(a, b))

SharesEdge(a, b) ==
    [source |-> PersonId(a.name), target |-> PersonId(b.name), type |-> "SHARES",
     weight |-> totalShared(a, b),
     shared |-> [skills |-> sharedSkills(a, b), values |-> sharedValues(a, b),
                 interests |-> sharedInterests(a, b)],
     direction |-> "", ai_generated |-> FALSE]

\* the index pairs (i, j), i < j, in the order of the two nested loops
RECURSIVE IndexPairsFrom(_, _, _)
IndexPairsFrom(i, j, n) ==
    IF i >= n THEN <<>>
    ELSE IF j > n THEN IndexPairsFrom(i + 1, i + 2, n)
    ELSE <<<<i, j>>>> \o IndexPairsFrom(i, j + 1, n)

IndexPairs(n) == IndexPairsFrom(1, 2, n)

RECURSIVE SharesEdges(_, _)
SharesEdges(active, ips) ==
    IF ips = <<>> THEN <<>>
    ELSE LET a == active[Head(ips)[1]]
             b == active[Head(ips)[2]]
             rest == SharesEdges(active, Tail(ips))
         IN  IF totalShared(a, b) > 0 THEN <<SharesEdge(a, b)>> \o rest ELSE rest

\* mutant: nodes, edges, nodeMap and edgeKeys live outside the function and
\* keep what an earlier call left in them
FreshState_shared(persons) ==
    [nodes |-> graph.nodes \o persons, edges |-> graph.edges,
     nodeMap |-> {graph.nodes[i].id : i \in 1..Len(graph.nodes)}
                 \cup {persons[i].id : i \in 1..Len(persons)},
     edgeKeys |-> {}, raised |-> FALSE]

\* const nodes = [], edges = [], nodeMap = new Map(), edgeKeys = new Set(),
\* all local to the call, after the person nodes have been pushed
FreshState(persons) ==
    [nodes |-> persons, edges |-> <<>>,
     nodeMap |-> {persons[i].id : i \in 1..Len(persons)},
     edgeKeys |-> {}, raised |-> FALSE]

\* buildMechanicalGraph(employees): [nodes, edges, raised]; raised when a
\* TypeError left the function (nodes and edges are then never returned)
buildMechanicalGraph(emps) ==
    LET active == ActiveOf(emps)
        persons == [i \in 1..Len(active) |-> PersonNode(active[i])]
        st == UpsertTypes(FreshState(persons), AttrTypes, active)
    IN  IF st.raised
        THEN [nodes |-> <<>>, edges |-> <<>>, raised |-> TRUE]
        ELSE [nodes |-> st.nodes,
              edges |-> st.edges \o SharesEdges(active, IndexPairs(Len(active))),
              raised |-> FALSE]

(***************************************************************************)
(* Inputs                                                                  *)
(***************************************************************************)
MaxLabelLen == 2    \* length of the generated labels (Label Normalizer)
MaxEmp == 3         \* employee records in a Phase-1 input
MaxCalls == 2       \* repeated applications of a normalizer

AWS == <<"A", "W", "S">>
AwsLower == <<"a", "w", "s">>
Infra == Word("infurasekkei")
JikoSeichou == Word("jikoseichou")
Seichou == Word("seichou")
SeiseiAI == <<"seisei", "A", "I">>
Kansha == Word("kansha")
CapitalConstructor == <<"C", "o", "n", "s", "t", "r", "u", "c", "t", "o", "r">>
\* a list element that is a number, not a string
Number42 == <<"#number", "42">>

LabelAlphabet == {"A", "a", " ", "MIDDOT", "_", "seichou", "jikoseichou"}

GeneratedLabels ==
    {s \in UNION {[1..k -> LabelAlphabet] : k \in 0..MaxLabelLen} : WellFormed(s)}

LabelUniverse ==
    SynonymKeys \cup SynonymValues \cup InheritedKeys \cup GeneratedLabels
    \cup {AWS, AwsLower, Infra, CapitalConstructor, <<"A", "I", " ", "gijutsu">>}

Names == <<Word("sato"), Word("suzuki"), Word("takahashi"), Word("tanaka"),
           Word("ito"), Word("watanabe")>>

Profile(skills, values, interests, motivations) ==
    [dominant_strengths |-> skills, core_values |-> values,
     recent_topics_of_interest |-> interests, motivation_triggers |-> motivations]

ProfileA == Profile(List(<<AWS, Infra>>), List(<<JikoSeichou>>), Absent, Absent)
ProfileB == Profile(List(<<AWS>>), List(<<Seichou>>), List(<<>>), List(<<Kansha>>))
ProfileSpellings ==
    Profile(List(<<AwsLower, AWS>>), List(<<Seichou, JikoSeichou>>),
            List(<<SeiseiAI>>), List(<<Seichou>>))
ProfileCrossed ==
    Profile(List(<<Seichou>>), Absent, List(<<AIgijutsu, AWS>>), List(<<Kansha>>))
ProfileEmpty == Profile(Absent, Absent, Absent, Absent)

\* profiles with well-formed attribute lists
Profiles == {ProfileA, ProfileB, ProfileSpellings, ProfileCrossed, ProfileEmpty}

\* profiles on whose lists Phase 1 raises
RaisingProfiles ==
    { Profile(List(<<ConstructorName>>), List(<<Seichou>>), Absent, Absent),
      Profile(List(<<AWS>>), NotAList, Absent, Absent),
      Profile(List(<<AWS>>), Absent, List(<<Number42>>), Absent) }

ActiveValues == {"true", "false", "missing"}

\* the records of a Phase-1 input, as <<isActive, profile>>
GraphRecords ==
    ({"true"} \X (Profiles \cup RaisingProfiles))
    \cup ({"missing"} \X {ProfileA, ProfileB})
    \cup ({"false"} \X {ProfileA, ProfileSpellings})

Employee(i, act, prof) ==
    [name |-> Names[i], isActive |-> act,
     dominant_strengths |-> prof.dominant_strengths,
     core_values |-> prof.core_values,
     recent_topics_of_interest |-> prof.recent_topics_of_interest,
     motivation_triggers |-> prof.motivation_triggers]

\* employee lists of length n; the i-th record is named Names[i], so names
\* are pairwise distinct (the store keeps them so)
EmployeeLists(n, records) ==
    {[i \in 1..n |-> Employee(i, f[i][1], f[i][2])] : f \in [1..n -> records]}

GraphInputs == UNION {EmployeeLists(n, GraphRecords) : n \in 0..MaxEmp}

(***************************************************************************)
(* State                                                                   *)
(***************************************************************************)
vars == <<norm, employees, env, pc, graph, phase1, url, pairs, batchStart,
          aiEdges, inFlight, requestLog, batchLog, delayed, output, issue>>

NoGraph == [nodes |-> <<>>, edges |-> <<>>]
NoOutput == [writes |-> 0, metadata |-> [employee_count |-> 0, node_count |-> 0,
                                         edge_count |-> 0, ai_enhanced |-> FALSE],
             nodes |-> <<>>, edges |-> <<>>]
NoEnv == [SKIP_AI |-> FALSE, API_KEY |-> FALSE, PROJECT_ID |-> FALSE,
          ENDPOINT_ID |-> FALSE, DATA_FILE |-> FALSE]
NoNorm == [fn |-> "", label |-> <<>>, vals |-> <<>>]
NoIssue == [op |-> "", name |-> <<>>, action_type |-> <<>>, before |-> <<>>,
            raised |-> FALSE]

\* the variables of enhanceWithAI and main before they run
IdleRun ==
    /\ graph = NoGraph
    /\ phase1 = NoGraph
    /\ url = ""
    /\ pairs = <<>>
    /\ batchStart = 0
    /\ aiEdges = <<>>
    /\ inFlight = 0
    /\ requestLog = <<>>
    /\ batchLog = <<>>
    /\ delayed = {}
    /\ output = NoOutput
    /\ issue = NoIssue

runVars == <<employees, env, pc, graph, phase1, url, pairs, batchStart,
             aiEdges, inFlight, requestLog, batchLog, delayed, output>>

(***************************************************************************)
(* The Label Normalizer on its own: one of the two functions is applied    *)
(* to a label and then to its own result.                                  *)
(***************************************************************************)
InitNorm ==
    /\ norm \in [fn : {"normalizeLabel", "normalizeForId"},
                 label : LabelUniverse, vals : {<<>>}]
    /\ employees = <<>>
    /\ env = NoEnv
    /\ pc = "normalizer"
    /\ IdleRun

Raised(v) == v = TypeError

CallNormalizeLabel ==
    /\ pc = "normalizer"
    /\ norm.fn = "normalizeLabel"
    /\ Len(norm.vals) < MaxCalls
    /\ norm' = [norm EXCEPT !.vals =
                   Append(@, normalizeLabel(IF @ = <<>> THEN norm.label
                                            ELSE @[Len(@)]))]
    /\ UNCHANGED <<issue, runVars>>

CallNormalizeForId ==
    /\ pc = "normalizer"
    /\ norm.fn = "normalizeForId"
    /\ Len(norm.vals) < MaxCalls
    /\ \A i \in 1..Len(norm.vals) : ~Raised(norm.vals[i])
    /\ norm' = [norm EXCEPT !.vals =
                   Append(@, normalizeForId(IF @ = <<>> THEN norm.label
                                            ELSE @[Len(@)]))]
    /\ UNCHANGED <<issue, runVars>>

NextNorm == CallNormalizeLabel \/ CallNormalizeForId

SpecNorm == InitNorm /\ [][NextNorm]_vars

(***************************************************************************)
(* Phase 1 on its own                                                      *)
(***************************************************************************)
InitGraph ==
    /\ norm = NoNorm
    /\ employees \in GraphInputs
    /\ env = NoEnv
    /\ pc = "phase1"
    /\ IdleRun

\* let graph = buildMechanicalGraph(employees); a TypeError leaves main()
\* and main().catch(console.error) logs it
Phase1 ==
    /\ pc = "phase1"
    /\ LET g == buildMechanicalGraph(employees)
       IN  /\ graph' = [nodes |-> g.nodes, edges |-> g.edges]
           /\ phase1' = graph'
           /\ pc' = IF g.raised THEN "rejected" ELSE "phase2"
    /\ UNCHANGED <<issue, norm, employees, env, url, pairs, batchStart, aiEdges,
                   inFlight, requestLog, batchLog, delayed, output>>

\* buildMechanicalGraph is called a second time, in the same process, on
\* the same list; graph holds what the second call returns
Phase1Again ==
    /\ pc = "phase2"
    /\ LET g == buildMechanicalGraph(employees)
       IN  /\ graph' = [nodes |-> g.nodes, edges |-> g.edges]
           /\ pc' = IF g.raised THEN "rejected" ELSE "phase2again"
    /\ UNCHANGED <<issue, norm, employees, env, phase1, url, pairs, batchStart, aiEdges,
                   inFlight, requestLog, batchLog, delayed, output>>

NextGraph == Phase1 \/ Phase1Again

SpecGraph == InitGraph /\ [][NextGraph]_vars

(***************************************************************************)
(* The whole run: main() and enhanceWithAI()                               *)
(***************************************************************************)
MaxPeople == 4      \* employee records in the input of a whole run
MaxScore == 11      \* largest score the external judge returns
BATCH_SIZE == 5
ScoreThreshold == 5

\* the i-th record of a run's input carries one of two fixed profiles
PipelineProfile(i) == IF i % 2 = 1 THEN ProfileA ELSE ProfileB

\* a profile on which Phase 1 would raise, carried by inactive records only
MalformedProfile ==
    Profile(NotAList, List(<<Number42>>), List(<<ConstructorName>>), Absent)

\* what the i-th record of a run's input may be: its isActive (only the
\* first record may come without one) and whether its profile is the
\* regular one
RecordChoices(i) ==
    ((IF i = 1 THEN ActiveValues ELSE {"true", "false"}) \X {"regular"})
    \cup {<<"false", "malformed">>}

PipelineRecord(i, choice) ==
    Employee(i, choice[1],
             IF choice[2] = "regular" THEN PipelineProfile(i) ELSE MalformedProfile)

PipelineInputs ==
    UNION {{[i \in 1..n |-> PipelineRecord(i, c[i])] :
               c \in {d \in [1..n -> RecordChoices(1)] :
                          \A i \in 1..n : d[i] \in RecordChoices(i)}} :
           n \in 0..MaxPeople}

Init ==
    /\ norm = NoNorm
    /\ employees \in PipelineInputs
    /\ env \in [SKIP_AI : BOOLEAN, API_KEY : BOOLEAN, PROJECT_ID : BOOLEAN,
                ENDPOINT_ID : BOOLEAN, DATA_FILE : BOOLEAN]
    /\ pc = "main"
    /\ IdleRun

\* main(): fs.existsSync(DATA_FILE), process.exit(1), JSON.parse(readFileSync)
MainStart ==
    /\ pc = "main"
    /\ pc' = IF env.DATA_FILE THEN "phase1" ELSE "exit1"
    /\ UNCHANGED <<issue, norm, employees, env, graph, phase1, url, pairs, batchStart,
                   aiEdges, inFlight, requestLog, batchLog, delayed, output>>

\* mutant: the flag also asks for an endpoint id
AiEnabled_needsEndpoint ==
    ~env.SKIP_AI /\ env.API_KEY /\ env.PROJECT_ID /\ env.ENDPOINT_ID

\* !SKIP_AI && !!API_KEY && !!PROJECT_ID
AiEnabled == ~env.SKIP_AI /\ env.API_KEY /\ env.PROJECT_ID

\* mutant: only the flag is tested
Phase2Skipped_flagOnly == env.SKIP_AI

\* enhanceWithAI: the two early returns
Phase2Skipped == env.SKIP_AI \/ ~env.API_KEY \/ ~env.PROJECT_ID

EnhanceSkip ==
    /\ pc = "phase2"
    /\ Phase2Skipped
    /\ pc' = "serialize"
    /\ UNCHANGED <<issue, norm, employees, env, graph, phase1, url, pairs, batchStart,
                   aiEdges, inFlight, requestLog, batchLog, delayed, output>>

\* mutant: the pairs are built over every record, inactive ones included
AllPairs_everyRecord(active) ==
    [k \in 1..Len(IndexPairs(Len(employees))) |->
        <<employees[IndexPairs(Len(employees))[k][1]].name,
          employees[IndexPairs(Len(employees))[k][2]].name>>]

\* pairs.push([activeEmployees[i], activeEmployees[j]]); a pair is kept
\* as the two names
AllPairs(active) ==
    [k \in 1..Len(IndexPairs(Len(active))) |->
        <<active[IndexPairs(Len(active))[k][1]].name,
          active[IndexPairs(Len(active))[k][2]].name>>]

EnhanceBegin ==
    /\ pc = "phase2"
    /\ ~Phase2Skipped
    /\ url' = IF env.ENDPOINT_ID THEN "endpoint" ELSE "gemini-1.5-pro-002"
    /\ pairs' = AllPairs(ActiveOf(employees))
    /\ aiEdges' = <<>>
    /\ batchStart' = 0
    /\ pc' = "loop"
    /\ UNCHANGED <<issue, norm, employees, env, graph, phase1, inFlight, requestLog,
                   batchLog, delayed, output>>

Min(a, b) == IF a < b THEN a ELSE b

\* mutant: the slice has no end index
Batch_toEnd == SubSeq(pairs, batchStart + 1, Len(pairs))

\* pairs.slice(batchStart, batchStart + BATCH_SIZE)
Batch == SubSeq(pairs, batchStart + 1, Min(batchStart + BATCH_SIZE, Len(pairs)))

\* Math.floor(batchStart / BATCH_SIZE) + 1
BatchNo == (batchStart \div BATCH_SIZE) + 1

\* where `continue` resumes: the loop's update expression
AfterNotOk == "loop"

\* mutant: the error leaves the loop (no try/catch around the batch)
AfterCatch_abort == "serialize"

\* the catch block logs the error and falls through to the setTimeout promise
AfterCatch == "sleep"

\* the end of the try block leads to the setTimeout promise
AfterTry == "sleep"

\* mutant: fetch is not awaited, the loop goes on while the request is out
AwaitFetch_notAwaited == "loop"

\* enhanceWithAI is suspended at `await fetch(url, ...)`
AwaitFetch == "fetch"

\* the loop test holds: the prompt is built and fetch(url, ...) is called;
\* enhanceWithAI is suspended at `await fetch`
IssueRequest ==
    /\ pc = "loop"
    /\ batchStart < Len(pairs)
    /\ inFlight' = inFlight + 1
    /\ requestLog' = Append(requestLog,
           [batch |-> BatchNo, pairs |-> Batch, url |-> url,
            inFlightBefore |-> inFlight, settledBefore |-> Len(batchLog),
            delayedBefore |-> delayed])
    /\ pc' = AwaitFetch
    /\ UNCHANGED <<issue, norm, employees, env, graph, phase1, url, pairs, batchStart,
                   aiEdges, batchLog, delayed, output>>

\* mutant: the edge list is replaced by the AI edges
PushAll_assign(edges, more) == more

\* edges.push(...more)
PushAll(edges, more) == edges \o more

\* the loop test fails: graph.edges.push(...aiEdges); return graph
EnhanceFinish ==
    /\ pc = "loop"
    /\ batchStart >= Len(pairs)
    /\ graph' = [graph EXCEPT !.edges = PushAll(@, aiEdges)]
    /\ pc' = "serialize"
    /\ UNCHANGED <<issue, norm, employees, env, phase1, url, pairs, batchStart, aiEdges,
                   inFlight, requestLog, batchLog, delayed, output>>

(***************************************************************************)
(* What the external judge answers.  An element of the parsed array is     *)
(* null (isNull) or an object; each judgment field is [present, score],    *)
(* present = FALSE when the field or its score is missing (the comparison  *)
(* undefined >= 5 is false).                                               *)
(***************************************************************************)
NoField == [present |-> FALSE, score |-> 0]
Score(n) == [present |-> TRUE, score |-> n]

Judgment(pair, c, m, t) ==
    [isNull |-> FALSE, person_a |-> pair[1], person_b |-> pair[2],
     complements |-> c, mentoring_fit |-> m, team_synergy |-> t,
     direction |-> "mutual"]

NullElement ==
    [isNull |-> TRUE, person_a |-> <<>>, person_b |-> <<>>,
     complements |-> NoField, mentoring_fit |-> NoField, team_synergy |-> NoField,
     direction |-> ""]

JudgeScores == {ScoreThreshold - 1, ScoreThreshold, MaxScore}

\* mentoring_fit.direction as the judge wrote it: "AtoB" and "BtoA" stand
\* for the two arrow tags, "" for a mentoring_fit object without direction
WithDirection(j, dir) == [j EXCEPT !.direction = dir]

DirectionFor(n) ==
    CASE n = ScoreThreshold - 1 -> "mutual"
      [] n = ScoreThreshold -> ""
      [] OTHER -> "BtoA"

\* judgments about one pair: one field scored, or all three
Judgments(pair) ==
    {Judgment(pair, Score(n), NoField, NoField) : n \in JudgeScores}
    \cup {WithDirection(Judgment(pair, NoField, Score(n), NoField), DirectionFor(n)) :
             n \in JudgeScores}
    \cup {Judgment(pair, NoField, NoField, Score(n)) : n \in JudgeScores}
    \cup {WithDirection(Judgment(pair, Score(ScoreThreshold), Score(MaxScore),
                                 Score(ScoreThreshold - 1)), "AtoB")}

FullJudgment(pair) ==
    Judgment(pair, Score(ScoreThreshold), Score(ScoreThreshold + 1),
             Score(ScoreThreshold + 2))

\* a name the judge made up: no employee record carries it
Stranger == Word("yamada")

\* a judgment whose person_b is not the name the prompt gave
ForeignJudgment(pair) ==
    Judgment(<<pair[1], Stranger>>, Score(ScoreThreshold + 1), NoField, NoField)

\* the arrays JSON.parse(text) may give for a batch
Responses(batch) ==
    {<<>>, <<ForeignJudgment(batch[1])>>}
    \cup {<<j>> : j \in Judgments(batch[1])}
    \cup {<<FullJudgment(batch[1]), NullElement>>,
          <<NullElement, FullJudgment(batch[1])>>,
          <<FullJudgment(batch[Len(batch)]), FullJudgment(batch[1])>>}

AiEdge(r, type, field, dir) ==
    [source |-> PersonId(r.person_a), target |-> PersonId(r.person_b),
     type |-> type, weight |-> field.score, shared |-> NoShared,
     direction |-> dir, ai_generated |-> TRUE]

\* mutant: a missing field or score counts as passing
Passes_missingPasses(field) == ~field.present \/ field.score >= ScoreThreshold

\* mutant: strict comparison
Passes_strict(field) == field.present /\ field.score > ScoreThreshold

\* field?.score >= 5
Passes(field) == field.present /\ field.score >= ScoreThreshold

\* the three ifs of results.forEach(r => ...) for an element that is an object
EdgesOfResult(r) ==
    (IF Passes(r.complements)
     THEN <<AiEdge(r, "COMPLEMENTS", r.complements, "")>> ELSE <<>>)
    \o (IF Passes(r.mentoring_fit)
        THEN <<AiEdge(r, "MENTORING_FIT", r.mentoring_fit, r.direction)>> ELSE <<>>)
    \o (IF Passes(r.team_synergy)
        THEN <<AiEdge(r, "TEAM_SYNERGY", r.team_synergy, "")>> ELSE <<>>)

RECURSIVE ForEachResult(_, _)
\* results.forEach: pushes onto aiEdges element by element; reading
\* r.complements of a null element raises a TypeError, which ends the loop
\* and leaves what was pushed before
ForEachResult(acc, results) ==
    IF results = <<>> THEN [edges |-> acc, threw |-> FALSE]
    ELSE IF Head(results).isNull THEN [edges |-> acc, threw |-> TRUE]
    ELSE ForEachResult(acc \o EdgesOfResult(Head(results)), Tail(results))

Settled(outcome, results, added) ==
    /\ inFlight' = inFlight - 1
    /\ batchLog' = Append(batchLog,
           [batch |-> BatchNo, outcome |-> outcome, results |-> results,
            before |-> aiEdges, added |-> added])

\* fetch rejects (network error): caught by the catch block
FetchRejected ==
    /\ pc = AwaitFetch
    /\ inFlight > 0
    /\ Settled("rejected", <<>>, <<>>)
    /\ pc' = AfterCatch
    /\ UNCHANGED <<issue, norm, employees, env, graph, phase1, url, pairs, batchStart,
                   aiEdges, requestLog, delayed, output>>

\* !response.ok: console.error and `continue`, which goes straight to
\* batchStart += BATCH_SIZE (the setTimeout below the try is not reached)
ResponseNotOk ==
    /\ pc = AwaitFetch
    /\ inFlight > 0
    /\ Settled("http", <<>>, <<>>)
    /\ batchStart' = batchStart + BATCH_SIZE
    /\ pc' = AfterNotOk
    /\ UNCHANGED <<issue, norm, employees, env, graph, phase1, url, pairs, aiEdges,
                   requestLog, delayed, output>>

\* response.json() rejects, JSON.parse(text) throws (text is '' when the
\* chunks carry none), or the parsed value has no forEach: caught before
\* anything is pushed
BodyUnparsable ==
    /\ pc = AwaitFetch
    /\ inFlight > 0
    /\ Settled("unparsable", <<>>, <<>>)
    /\ pc' = AfterCatch
    /\ UNCHANGED <<issue, norm, employees, env, graph, phase1, url, pairs, batchStart,
                   aiEdges, requestLog, delayed, output>>

\* JSON.parse(text) gives an array: results.forEach runs, to its end or to
\* the element that raises
ResponseParsed ==
    /\ pc = AwaitFetch
    /\ inFlight > 0
    /\ \E results \in Responses(Batch) :
          LET run == ForEachResult(aiEdges, results)
          IN  /\ aiEdges' = run.edges
              /\ Settled(IF run.threw THEN "threw" ELSE "ok", results,
                         SubSeq(run.edges, Len(aiEdges) + 1, Len(run.edges)))
              /\ pc' = IF run.threw THEN AfterCatch ELSE AfterTry
    /\ UNCHANGED <<issue, norm, employees, env, graph, phase1, url, pairs, batchStart,
                   requestLog, delayed, output>>

\* await new Promise(r => setTimeout(r, 1200)) resolves; batchStart += BATCH_SIZE
DelayElapsed ==
    /\ pc = "sleep"
    /\ delayed' = delayed \cup {BatchNo}
    /\ batchStart' = batchStart + BATCH_SIZE
    /\ pc' = "loop"
    /\ UNCHANGED <<issue, norm, employees, env, graph, phase1, url, pairs, aiEdges,
                   inFlight, requestLog, batchLog, output>>

\* mutant: the edges are counted before Phase 2 appended its own
EdgeCount_phase1 == Len(phase1.edges)

\* edge_count: graph.edges.length
EdgeCount == Len(graph.edges)

\* main(): the metadata record and fs.writeFileSync(OUTPUT_FILE, ...)
WriteOutput ==
    /\ pc = "serialize"
    /\ output' = [writes |-> output.writes + 1,
                  metadata |-> [employee_count |-> Len(ActiveOf(employees)),
                                node_count |-> Len(graph.nodes),
                                edge_count |-> EdgeCount,
                                ai_enhanced |-> AiEnabled],
                  nodes |-> graph.nodes, edges |-> graph.edges]
    /\ pc' = "done"
    /\ UNCHANGED <<issue, norm, employees, env, graph, phase1, url, pairs, batchStart,
                   aiEdges, inFlight, requestLog, batchLog, delayed>>

Next ==
    \/ MainStart
    \/ Phase1
    \/ EnhanceSkip
    \/ EnhanceBegin
    \/ IssueRequest
    \/ FetchRejected
    \/ ResponseNotOk
    \/ BodyUnparsable
    \/ ResponseParsed
    \/ DelayElapsed
    \/ EnhanceFinish
    \/ WriteOutput

Spec == Init /\ [][Next]_vars

(***************************************************************************)
(* The employee store (scripts/process-issue.js): the list kept in         *)
(* data/employees.json, changed by one issue at a time.                    *)
(***************************************************************************)
MaxStoreNames == 2  \* names that occur in the store and in the issues

StoreNames == {Names[i] : i \in 1..MaxStoreNames}

\* the name an issue gives; NoName when the name field is left empty
\* (data.name is then undefined, and so is the name of the record it adds)
NoName == <<"#undefined">>
IssueNames == StoreNames \cup {NoName}

\* the blocks an issue's data carries: none, or all of them
IssueProfiles == {ProfileEmpty, ProfileB}

StoreRecords ==
    {Employee(i, act, prof) :
        i \in 1..MaxStoreNames, act \in {"true", "false"}, prof \in IssueProfiles}

PairwiseDistinctNames(emps) ==
    \A k, l \in 1..Len(emps) : emps[k].name = emps[l].name => k = l

StoreInputs ==
    {emps \in UNION {[1..n -> StoreRecords] : n \in 0..MaxStoreNames} :
        PairwiseDistinctNames(emps)}

\* mutant: the lookup never finds the record
findIndex_never(emps, name) == 0

\* employees.findIndex(e => e.name === name), 1-based; 0 stands for -1
findIndex(emps, name) ==
    IF \E k \in 1..Len(emps) : emps[k].name = name
    THEN CHOOSE k \in 1..Len(emps) :
             emps[k].name = name /\ \A l \in 1..(k - 1) : emps[l].name # name
    ELSE 0

\* the data of an update issue: a name and the blocks it carries
NewData(name, prof) ==
    [name |-> name, isActive |-> "missing",
     dominant_strengths |-> prof.dominant_strengths,
     core_values |-> prof.core_values,
     recent_topics_of_interest |-> prof.recent_topics_of_interest,
     motivation_triggers |-> prof.motivation_triggers]

Spread(old, new) == IF new = Absent THEN old ELSE new

\* { ...employees[index], ...newData, updatedAt: now, isActive: true }
Merged(old, newData) ==
    [name |-> newData.name, isActive |-> "true",
     dominant_strengths |-> Spread(old.dominant_strengths, newData.dominant_strengths),
     core_values |-> Spread(old.core_values, newData.core_values),
     recent_topics_of_interest |->
         Spread(old.recent_topics_of_interest, newData.recent_topics_of_interest),
     motivation_triggers |->
         Spread(old.motivation_triggers, newData.motivation_triggers)]

UpdateAt(emps, index, newData) ==
    IF index # 0
    THEN [emps EXCEPT ![index] = Merged(@, newData)]
    ELSE Append(emps, [newData EXCEPT !.isActive = "true"])

updateEmployee(emps, newData) ==
    UpdateAt(emps, findIndex(emps, newData.name), newData)

\* what the issue form's action field may hold; NoAction when the field is
\* left empty (data.action_type is then undefined)
DeleteAction == <<"Delete", "kanzensakujo">>
ArchiveAction == <<"Archive", "taishoku">>
NoAction == <<"#undefined">>
ActionTypes == {DeleteAction, ArchiveAction, NoAction}

\* employees.splice(index, 1)
Splice(emps, index) ==
    SubSeq(emps, 1, index - 1) \o SubSeq(emps, index + 1, Len(emps))

\* [list, raised]: data.action_type.includes on undefined raises a TypeError
\* before the list is touched
DeleteAt(emps, index, action_type) ==
    IF index = 0 THEN [list |-> emps, raised |-> FALSE]
    ELSE IF action_type = NoAction THEN [list |-> emps, raised |-> TRUE]
    ELSE IF Includes(action_type, "Delete")
    THEN [list |-> Splice(emps, index), raised |-> FALSE]
    ELSE [list |-> [emps EXCEPT ![index].isActive = "false"], raised |-> FALSE]

deleteEmployee(emps, data) ==
    DeleteAt(emps, findIndex(emps, data.name), data.action_type)

InitStore ==
    /\ norm = NoNorm
    /\ employees \in StoreInputs
    /\ env = NoEnv
    /\ pc = "store"
    /\ IdleRun

\* an issue labelled employee-update is processed
UpdateIssue ==
    /\ pc = "store"
    /\ \E name \in IssueNames, prof \in IssueProfiles :
          /\ employees' = updateEmployee(employees, NewData(name, prof))
          /\ issue' = [op |-> "updateEmployee", name |-> name,
                       action_type |-> <<>>, before |-> employees,
                       raised |-> FALSE]
    /\ UNCHANGED <<norm, env, pc, graph, phase1, url, pairs, batchStart, aiEdges,
                   inFlight, requestLog, batchLog, delayed, output>>

\* an issue labelled employee-delete is processed
DeleteIssue ==
    /\ pc = "store"
    /\ \E name \in IssueNames, action_type \in ActionTypes :
          LET r == deleteEmployee(employees,
                                  [name |-> name, action_type |-> action_type])
          IN  /\ employees' = r.list
              /\ issue' = [op |-> "deleteEmployee", name |-> name,
                           action_type |-> action_type, before |-> employees,
                           raised |-> r.raised]
    /\ UNCHANGED <<norm, env, pc, graph, phase1, url, pairs, batchStart, aiEdges,
                   inFlight, requestLog, batchLog, delayed, output>>

NextStore == UpdateIssue \/ DeleteIssue

SpecStore == InitStore /\ [][NextStore]_vars

(***************************************************************************)
(* Properties                                                              *)
(***************************************************************************)
SeqSet(seq) == {seq[k] : k \in 1..Len(seq)}

\* the canonical labels of one attribute list of an employee, as a set
CanonSet(e, type) == {normalizeLabel(x) : x \in SeqSet(Items(e, type))}

Overlap(a, b, type) == CanonSet(a, type) \cap CanonSet(b, type)

OverlapWeight(a, b) ==
    Cardinality(Overlap(a, b, "skill")) + Cardinality(Overlap(a, b, "value"))
    + Cardinality(Overlap(a, b, "interest"))

\* the SHARES edges between two employees, in either direction
SharesBetween(a, b) ==
    {k \in 1..Len(graph.edges) :
        /\ graph.edges[k].type = "SHARES"
        /\ {graph.edges[k].source, graph.edges[k].target}
               = {PersonId(a.name), PersonId(b.name)}}

IsListOfSet(seq, set) == SeqSet(seq) = set /\ Len(seq) = Cardinality(set)

SharesEdgeMatches(edge, a, b) ==
    /\ edge.source = PersonId(a.name)
    /\ edge.target = PersonId(b.name)
    /\ edge.weight = OverlapWeight(a, b)
    /\ IsListOfSet(edge.shared.skills, Overlap(a, b, "skill"))
    /\ IsListOfSet(edge.shared.values, Overlap(a, b, "value"))
    /\ IsListOfSet(edge.shared.interests, Overlap(a, b, "interest"))

SharesCorrectFor(a, b) ==
    /\ (OverlapWeight(a, b) > 0 <=> SharesBetween(a, b) # {})
    /\ Cardinality(SharesBetween(a, b)) <= 1
    /\ \A k \in SharesBetween(a, b) : SharesEdgeMatches(graph.edges[k], a, b)

\* C1: after buildMechanicalGraph, for every pair i < j of active employees
\* a SHARES edge between them exists iff the per-category intersections of
\* their canonical skill, value and interest lists have a positive total
\* size; there is then exactly one, from i to j, its weight is that total
\* and its shared lists are the three intersections.
C1_SharesIffOverlap ==
    pc = "phase2" =>
        \A i \in 1..Len(ActiveOf(employees)) :
            \A j \in (i + 1)..Len(ActiveOf(employees)) :
                SharesCorrectFor(ActiveOf(employees)[i], ActiveOf(employees)[j])

\* three active employees, one pair sharing two attributes (one of them
\* through a synonym) and one pair sharing none
C1_Witness ==
    /\ pc = "phase2"
    /\ Len(ActiveOf(employees)) = 3
    /\ \E i, j \in 1..3 :
          /\ i < j
          /\ OverlapWeight(ActiveOf(employees)[i], ActiveOf(employees)[j]) >= 2
          /\ CanonSet(ActiveOf(employees)[i], "value")
                 # SeqSet(Items(ActiveOf(employees)[i], "value"))
    /\ \E i, j \in 1..3 :
          /\ i < j
          /\ OverlapWeight(ActiveOf(employees)[i], ActiveOf(employees)[j]) = 0

PersonCount == Cardinality({k \in 1..Len(graph.nodes) : graph.nodes[k].type = "person"})

ActiveCount ==
    Cardinality({i \in 1..Len(employees) : employees[i].isActive # "false"})

AfterPhase1 == pc \in {"phase2", "loop", "fetch", "sleep", "serialize", "done"}

\* C2: the number of person nodes equals the number of records whose
\* isActive is not false (a record without isActive counts), after Phase 1
\* and through Phase 2 to the end of the run.
C2_PersonCount == AfterPhase1 => PersonCount = ActiveCount

\* a finished run with AI edges added, whose input has a record without
\* isActive and an inactive record
C2_Witness ==
    /\ pc = "done"
    /\ aiEdges # <<>>
    /\ \E i \in 1..Len(employees) : employees[i].isActive = "missing"
    /\ \E i \in 1..Len(employees) : employees[i].isActive = "false"
    /\ PersonCount = ActiveCount

SameCanonical(k, l) ==
    k \in SynonymKeys /\ l \in SynonymKeys /\ synonymMap[k] = synonymMap[l]

\* C3: normalizeLabel and normalizeForId yield a value for every label and
\* applying either to its own result gives the same result again; two
\* labels the synonym table maps to one canonical label get one node id.
C3_NormalizersIdempotent ==
    /\ \A i \in 1..Len(norm.vals) : ~Raised(norm.vals[i])
    /\ Len(norm.vals) >= 2 => norm.vals[2] = norm.vals[1]
    /\ \A k \in SynonymKeys :
          SameCanonical(k, norm.label) =>
              AttrId(normalizeForId(normalizeLabel(k)))
                  = AttrId(normalizeForId(normalizeLabel(norm.label)))

RECURSIVE EdgesOfAll(_)
\* the edges of every judgment of an array, in order
EdgesOfAll(results) ==
    IF results = <<>> THEN <<>>
    ELSE EdgesOfResult(Head(results)) \o EdgesOfAll(Tail(results))

RECURSIVE ConcatOk(_)
\* the edges of the batches of a log that succeeded, in batch order
ConcatOk(log) ==
    IF log = <<>> THEN <<>>
    ELSE ConcatOk(SubSeq(log, 1, Len(log) - 1))
         \o (IF log[Len(log)].outcome = "ok"
             THEN EdgesOfAll(log[Len(log)].results) ELSE <<>>)

ListedOutcomes == {"ok", "http", "rejected", "unparsable"}

OnlyListedOutcomes == \A k \in 1..Len(batchLog) : batchLog[k].outcome \in ListedOutcomes

LoopOver == pc \in {"serialize", "done"} /\ ~(env.SKIP_AI \/ ~env.API_KEY \/ ~env.PROJECT_ID)

\* what was collected before batch k settled is still there, unchanged
EarlierEdgesKept ==
    \A k \in 1..Len(batchLog) :
        /\ Len(batchLog[k].before) <= Len(aiEdges)
        /\ SubSeq(aiEdges, 1, Len(batchLog[k].before)) = batchLog[k].before

\* C4: no batch, whatever its outcome, removes or changes the edges other
\* batches produced; and when every batch ends in success, a non-success
\* status, a rejected request or an unparsable body, the edges collected
\* are at every moment the concatenation, in batch order, of the edges of
\* the batches that succeeded, the loop runs over every batch, and the
\* final edge list is the Phase-1 edges followed by exactly those edges.
C4_FailureIsolation ==
    /\ EarlierEdgesKept
    /\ OnlyListedOutcomes =>
          /\ aiEdges = ConcatOk(batchLog)
          /\ LoopOver =>
                /\ Len(batchLog) = (Len(pairs) + 4) \div 5
                /\ \A k \in 1..Len(batchLog) : batchLog[k].batch = k
                /\ graph.edges = phase1.edges \o ConcatOk(batchLog)

\* a finished run of two batches, one failed and one successful with edges
C4_Witness ==
    /\ pc = "done"
    /\ Len(batchLog) = 2
    /\ \E k, l \in 1..2 :
          /\ batchLog[k].outcome \in {"http", "rejected", "unparsable"}
          /\ batchLog[l].outcome = "ok"
          /\ batchLog[l].added # <<>>
    /\ output.edges = phase1.edges \o ConcatOk(batchLog)

\* C5: a batch that fails in any way (non-success status, rejected request,
\* unparsable body, an error raised while the judgments are iterated)
\* leaves no edge in the final graph.
C5_AllOrNothing ==
    pc = "done" => output.edges = phase1.edges \o ConcatOk(batchLog)

AiTypes == {"COMPLEMENTS", "MENTORING_FIT", "TEAM_SYNERGY"}

NoAiEdges(edges) ==
    \A k \in 1..Len(edges) : edges[k].type \notin AiTypes /\ ~edges[k].ai_generated

\* C6: with --skip-ai, or without the API key or the project id, no request
\* is issued, enhanceWithAI returns the Phase-1 graph unchanged, and the
\* document written has ai_enhanced = false and no AI edge.
C6_DisabledPassThrough ==
    (env.SKIP_AI \/ ~env.API_KEY \/ ~env.PROJECT_ID) =>
        /\ requestLog = <<>>
        /\ inFlight = 0
        /\ pc \in {"serialize", "done"} => graph = phase1
        /\ pc = "done" =>
              /\ output.metadata.ai_enhanced = FALSE
              /\ output.nodes = phase1.nodes
              /\ output.edges = phase1.edges
              /\ NoAiEdges(output.edges)

\* a document written by a run that had the credentials and --skip-ai,
\* for an input with at least two active employees
C6_Witness ==
    /\ pc = "done"
    /\ env.SKIP_AI /\ env.API_KEY /\ env.PROJECT_ID
    /\ Len(ActiveOf(employees)) >= 2
    /\ output.writes = 1
    /\ output.edges # <<>>

\* C7: at most one request is in flight; when the request of batch N+1 is
\* issued, none is in flight and the batches 1..N have all been settled and
\* processed.
C7_OneInFlight ==
    /\ inFlight <= 1
    /\ \A k \in 1..Len(requestLog) :
          /\ requestLog[k].batch = k
          /\ requestLog[k].inFlightBefore = 0
          /\ requestLog[k].settledBefore = k - 1

\* the second request is out while the first batch has been processed
C7_Witness ==
    /\ Len(requestLog) = 2
    /\ inFlight = 1
    /\ Len(batchLog) = 1

\* C8: whatever the outcome of batch N, the request of batch N+1 is issued
\* only after the inter-batch delay that follows batch N has elapsed.
C8_DelayBeforeNext ==
    \A k \in 2..Len(requestLog) :
        (requestLog[k].batch - 1) \in requestLog[k].delayedBefore

FieldOf(r, type) ==
    CASE type = "COMPLEMENTS" -> r.complements
      [] type = "MENTORING_FIT" -> r.mentoring_fit
      [] type = "TEAM_SYNERGY" -> r.team_synergy

\* the part of aiEdges that batch k of the log appended
Segment(k) ==
    SubSeq(aiEdges, Len(batchLog[k].before) + 1,
           Len(batchLog[k].before) + Len(batchLog[k].added))

\* the edges of a segment a judgment field accounts for
EdgesFor(seg, r, type) ==
    {m \in 1..Len(seg) :
        /\ seg[m].type = type
        /\ seg[m].ai_generated
        /\ seg[m].source = PersonId(r.person_a)
        /\ seg[m].target = PersonId(r.person_b)
        /\ seg[m].weight = FieldOf(r, type).score}

\* the judgments of an array that give a field the same pair and score
SameJudgments(results, r, type) ==
    {i \in 1..Len(results) :
        /\ results[i].person_a = r.person_a
        /\ results[i].person_b = r.person_b
        /\ FieldOf(results[i], type) = FieldOf(r, type)}

FieldsAtLeast5(results) ==
    {<<i, t>> \in (1..Len(results)) \X AiTypes :
        FieldOf(results[i], t).present /\ FieldOf(results[i], t).score >= 5}

JudgmentsHonoured(seg, results) ==
    /\ Len(seg) = Cardinality(FieldsAtLeast5(results))
    /\ \A i \in 1..Len(results) : \A t \in AiTypes :
          IF FieldOf(results[i], t).present /\ FieldOf(results[i], t).score >= 5
          THEN Cardinality(EdgesFor(seg, results[i], t))
                   = Cardinality(SameJudgments(results, results[i], t))
          ELSE FieldOf(results[i], t).present =>
                   EdgesFor(seg, results[i], t) = {}

RECURSIVE JudgmentObjects(_)
\* the elements of a parsed array that are judgment objects
JudgmentObjects(results) ==
    IF results = <<>> THEN <<>>
    ELSE (IF Head(results).isNull THEN <<>> ELSE <<Head(results)>>)
         \o JudgmentObjects(Tail(results))

C10_WeightRange ==
    \A k \in 1..Len(graph.edges) :
        graph.edges[k].ai_generated => graph.edges[k].weight \in 5..10

\* the labels of an employee's attribute lists
LabelsOf(e) ==
    UNION {SeqSet(SubField(e, AttrTypes[t]).items) : t \in 1..Len(AttrTypes)}

\* every label of every record is a string that names no property
\* synonymMap inherits: whatever is irregular in the input is its shape
OnlyShapeIssues ==
    \A i \in 1..Len(employees) : \A l \in LabelsOf(employees[i]) :
        l = Number42 \/ (IsString(l) /\ l \notin InheritedKeys)

\* C11: whatever blocks or lists of the records are missing, are no lists
\* or hold elements that are no strings, buildMechanicalGraph does not
\* raise: Phase 1 completes and returns a graph.
C11_Phase1NeverRaises == OnlyShapeIssues => pc # "rejected"

\* C12: whatever the outcomes of the batches, Phase 2 leaves the Phase-1
\* subgraph alone: the node list stays the Phase-1 node list, the Phase-1
\* edges stay, unmodified and in order, the prefix of the edge list, and
\* what enhanceWithAI returns (and main writes) is that prefix followed by
\* the AI edges only.
C12_Phase1Untouched ==
    AfterPhase1 =>
        /\ graph.nodes = phase1.nodes
        /\ Len(graph.edges) >= Len(phase1.edges)
        /\ SubSeq(graph.edges, 1, Len(phase1.edges)) = phase1.edges
        /\ NoAiEdges(phase1.edges)
        /\ \A k \in (Len(phase1.edges) + 1)..Len(graph.edges) :
              graph.edges[k].ai_generated /\ graph.edges[k].type \in AiTypes
        /\ pc \in {"phase2", "loop", "fetch", "sleep"} => graph = phase1
        /\ (pc \in {"serialize", "done"} /\ ~Phase2Skipped) =>
              graph.edges = phase1.edges \o aiEdges
        /\ pc = "done" => output.nodes = phase1.nodes /\ output.edges = graph.edges

\* a finished run over two batches, one that failed and one that raised
\* half-way, with Phase-1 edges and AI edges in the document
C12_Witness ==
    /\ pc = "done"
    /\ Len(batchLog) = 2
    /\ \E k, l \in 1..2 :
          /\ batchLog[k].outcome \in {"http", "rejected", "unparsable"}
          /\ batchLog[l].outcome \in {"ok", "threw"}
          /\ batchLog[l].added # <<>>
    /\ phase1.edges # <<>>
    /\ Len(output.edges) > Len(phase1.edges)
    /\ SubSeq(output.edges, 1, Len(phase1.edges)) = phase1.edges

\* the edges of a segment of one type between one pair
PairEdges(seg, a, b, type) ==
    {m \in 1..Len(seg) :
        /\ seg[m].type = type
        /\ seg[m].source = PersonId(a)
        /\ seg[m].target = PersonId(b)}

\* the judgments of an array about one pair whose field is scored 5 or more
ScoredJudgments(results, a, b, type) ==
    {i \in 1..Len(results) :
        /\ ~results[i].isNull
        /\ results[i].person_a = a
        /\ results[i].person_b = b
        /\ FieldOf(results[i], type).present
        /\ FieldOf(results[i], type).score >= 5}

HasMissingField(r) ==
    ~r.isNull /\ \E t \in AiTypes : ~FieldOf(r, t).present

Named(results, pair) ==
    \E i \in 1..Len(results) :
        results[i].person_a = pair[1] /\ results[i].person_b = pair[2]

\* the run has not failed: no error has left main(), and once the loop is
\* over every batch has been requested and settled
RunNotFailed ==
    /\ pc \in {"main", "exit1", "phase1", "phase2", "loop", "fetch", "sleep",
               "serialize", "done"}
    /\ LoopOver => Len(batchLog) = (Len(pairs) + BATCH_SIZE - 1) \div BATCH_SIZE
    /\ pc = "done" => output.writes = 1

DimensionTypes == {"HAS_SKILL", "VALUES", "INTERESTED_IN", "MOTIVATED_BY"}

DimensionEdges == {k \in 1..Len(graph.edges) : graph.edges[k].type \in DimensionTypes}

\* the dimensions under which an employee lists a label with a given node id
DimensionsOf(e, nodeId) ==
    {t \in 1..Len(AttrTypes) :
        \E x \in SeqSet(Items(e, AttrTypes[t])) : AttrId(normalizeForId(x)) = nodeId}

\* C14: after buildMechanicalGraph no two dimension edges have the same
\* source and target, every dimension edge has weight 1, and a person
\* listing labels of one node id under several dimensions has exactly one
\* edge to that node, typed by the first of those dimensions.
C14_OneDimensionEdge ==
    pc = "phase2" =>
        /\ \A k, l \in DimensionEdges :
              (graph.edges[k].source = graph.edges[l].source
               /\ graph.edges[k].target = graph.edges[l].target) => k = l
        /\ \A k \in DimensionEdges : graph.edges[k].weight = 1
        /\ \A i \in 1..Len(ActiveOf(employees)) :
              \A n \in 1..Len(graph.nodes) :
                  LET e == ActiveOf(employees)[i]
                      dims == DimensionsOf(e, graph.nodes[n].id)
                      mine == {k \in DimensionEdges :
                                  /\ graph.edges[k].source = PersonId(e.name)
                                  /\ graph.edges[k].target = graph.nodes[n].id}
                  IN  IF dims = {} THEN mine = {}
                      ELSE /\ Cardinality(mine) = 1
                           /\ \A k \in mine :
                                 graph.edges[k].type
                                     = EdgeType(AttrTypes[CHOOSE t \in dims :
                                                   \A u \in dims : t <= u])

\* an active employee lists one node id under two dimensions, and under one
\* dimension with two spellings
C14_Witness ==
    /\ pc = "phase2"
    /\ \E i \in 1..Len(ActiveOf(employees)) :
          /\ Cardinality(DimensionsOf(ActiveOf(employees)[i], AttrId(Seichou))) >= 2
          /\ Items(ActiveOf(employees)[i], "skill") = <<AwsLower, AWS>>
          /\ Cardinality({k \in DimensionEdges :
                  graph.edges[k].source = PersonId(ActiveOf(employees)[i].name)}) = 3

AttributeNodes == {n \in 1..Len(graph.nodes) : graph.nodes[n].type = "attribute"}

NoDuplicates(seq) == \A k, l \in 1..Len(seq) : seq[k] = seq[l] => k = l

\* the dimensions (as indices of AttrTypes) under which some active
\* employee lists a label with the node id
ReferencedUnder(nodeId) ==
    {t \in 1..Len(AttrTypes) :
        \E i \in 1..Len(ActiveOf(employees)) :
            t \in DimensionsOf(ActiveOf(employees)[i], nodeId)}

\* the active employees (as indices) who list such a label anywhere
Referrers(nodeId) ==
    {i \in 1..Len(ActiveOf(employees)) :
        DimensionsOf(ActiveOf(employees)[i], nodeId) # {}}

\* the position of an employee's first reference, dimensions first
FirstReference(i, nodeId) ==
    LET t == CHOOSE t \in DimensionsOf(ActiveOf(employees)[i], nodeId) :
                 \A u \in DimensionsOf(ActiveOf(employees)[i], nodeId) : t <= u
    IN  t * (Len(employees) + 1) + i

IndexOfName(name) ==
    CHOOSE i \in 1..Len(ActiveOf(employees)) : ActiveOf(employees)[i].name = name

AllReferencedIds ==
    {AttrId(normalizeForId(x)) :
        x \in UNION {LabelsOf(ActiveOf(employees)[i]) :
                        i \in 1..Len(ActiveOf(employees))}}

\* C15: after buildMechanicalGraph there is exactly one attribute node per
\* node id that an active employee references; its categories are, without
\* duplicates, exactly the dimensions under which some active employee
\* lists a label of that id; its connectedPeople are, without duplicates
\* and in the order of first reference, exactly the names of the active
\* employees who list such a label under any dimension.
C15_UnionSemantics ==
    pc = "phase2" =>
        /\ {graph.nodes[n].id : n \in AttributeNodes} = AllReferencedIds
        /\ \A n, m \in AttributeNodes :
              graph.nodes[n].id = graph.nodes[m].id => n = m
        /\ \A n \in AttributeNodes :
              LET node == graph.nodes[n]
              IN  /\ NoDuplicates(node.categories)
                  /\ SeqSet(node.categories)
                         = {AttrTypes[t] : t \in ReferencedUnder(node.id)}
                  /\ NoDuplicates(node.connectedPeople)
                  /\ SeqSet(node.connectedPeople)
                         = {ActiveOf(employees)[i].name : i \in Referrers(node.id)}
                  /\ \A k, l \in 1..Len(node.connectedPeople) :
                         k < l =>
                             FirstReference(IndexOfName(node.connectedPeople[k]), node.id)
                                 < FirstReference(IndexOfName(node.connectedPeople[l]), node.id)

\* a node with two categories and two members, the member who comes later
\* in the input listed first because the earlier dimension is theirs
C15_Witness ==
    /\ pc = "phase2"
    /\ \E n \in AttributeNodes :
          /\ graph.nodes[n].categories = <<"skill", "value">>
          /\ Len(graph.nodes[n].connectedPeople) = 2
          /\ IndexOfName(graph.nodes[n].connectedPeople[1])
                 > IndexOfName(graph.nodes[n].connectedPeople[2])

PairsBuilt == pc \in {"loop", "fetch", "sleep"} \/ LoopOver

NumActive == Len(ActiveOf(employees))

NumBatches == (Len(pairs) + 4) \div 5

\* the position of the pair (i, j), i < j, in the order of the nested loops
\* of the SHARES step
PairRank(i, j) == (i - 1) * NumActive - ((i - 1) * i) \div 2 + (j - i)

RECURSIVE RequestedPairs(_)
\* the pairs of the requests of a log, one after the other
RequestedPairs(log) ==
    IF log = <<>> THEN <<>>
    ELSE RequestedPairs(SubSeq(log, 1, Len(log) - 1)) \o log[Len(log)].pairs

\* C16: when Phase 2 runs with n active employees, pairs holds the
\* n(n-1)/2 pairs i < j in the order of the SHARES step; the k-th request
\* is for batch k and carries the pairs 5(k-1)+1 .. 5k (the last batch what
\* is left); no batch is requested twice, and at the end of the loop
\* ceil(P/5) requests have been issued whose pairs, put one after the
\* other, are all the pairs, each once.
C16_BatchPartition ==
    PairsBuilt =>
        /\ Len(pairs) = (NumActive * (NumActive - 1)) \div 2
        /\ \A i, j \in 1..NumActive :
              i < j => pairs[PairRank(i, j)]
                          = <<ActiveOf(employees)[i].name, ActiveOf(employees)[j].name>>
        /\ Len(requestLog) <= NumBatches
        /\ \A k \in 1..Len(requestLog) :
              /\ requestLog[k].batch = k
              /\ Len(requestLog[k].pairs)
                     = (IF k < NumBatches THEN 5 ELSE Len(pairs) - 5 * (k - 1))
              /\ \A m \in 1..Len(requestLog[k].pairs) :
                     requestLog[k].pairs[m] = pairs[5 * (k - 1) + m]
        /\ LoopOver =>
              /\ Len(requestLog) = NumBatches
              /\ RequestedPairs(requestLog) = pairs
              /\ NoDuplicates(RequestedPairs(requestLog))
        /\ NumActive < 2 => requestLog = <<>>

\* a finished run over more than five pairs whose first batch failed: two
\* requests, a full batch and a smaller last one
C16_Witness ==
    /\ pc = "done"
    /\ Len(pairs) > 5
    /\ Len(requestLog) = 2
    /\ Len(requestLog[1].pairs) = 5
    /\ Len(requestLog[2].pairs) = Len(pairs) - 5
    /\ batchLog[1].outcome \in {"http", "rejected", "unparsable", "threw"}

\* the document is written at most once, only by a run that found its
\* input, after buildMechanicalGraph has returned and enhanceWithAI has
\* either skipped or requested and settled every batch
WrittenOnceAfterBothPhases ==
    /\ output.writes <= 1
    /\ output.writes = 1 <=> pc = "done"
    /\ output.writes = 0 => output = NoOutput
    /\ ~env.DATA_FILE => output = NoOutput /\ pc \in {"main", "exit1"}
    /\ pc = "done" =>
          /\ phase1.nodes = buildMechanicalGraph(employees).nodes
          /\ phase1.edges = buildMechanicalGraph(employees).edges
          /\ inFlight = 0
          /\ IF Phase2Skipped THEN requestLog = <<>>
             ELSE /\ Len(requestLog) = NumBatches
                  /\ Len(batchLog) = NumBatches

\* C17: the document is written exactly once, only after Phase 1 has
\* completed and Phase 2 has processed or skipped every batch; as long as
\* the last batch and the delay that follows it have not both finished,
\* and when the input file is missing, nothing has been written.
C17_WrittenOnceAtEnd ==
    /\ WrittenOnceAfterBothPhases
    /\ (output.writes > 0 /\ ~Phase2Skipped) => delayed = 1..NumBatches

PersonNodesOf(nodes) == {k \in 1..Len(nodes) : nodes[k].type = "person"}

\* C18: in every document written, node_count is the length of nodes,
\* edge_count the length of edges (the Phase-1 edges and the AI edges
\* Phase 2 appended), and employee_count the number of active records,
\* which is the number of person nodes.
C18_MetadataCounts ==
    output.writes > 0 =>
        /\ output.metadata.node_count = Len(output.nodes)
        /\ output.metadata.edge_count = Len(output.edges)
        /\ ~Phase2Skipped =>
              output.metadata.edge_count = Len(phase1.edges) + Len(aiEdges)
        /\ output.metadata.employee_count = ActiveCount
        /\ output.metadata.employee_count = Cardinality(PersonNodesOf(output.nodes))

\* a document with AI edges, written for an input with an inactive record
C18_Witness ==
    /\ output.writes = 1
    /\ aiEdges # <<>>
    /\ \E i \in 1..Len(employees) : employees[i].isActive = "false"
    /\ output.metadata.edge_count > Len(phase1.edges)
    /\ output.metadata.employee_count < Len(employees)
    /\ output.metadata.node_count > output.metadata.employee_count

\* C19: when no record is active (the list is empty or every record has
\* isActive = false) the run raises no exception, the graph has no person
\* node, no attribute node and no edge, no inference request is issued, and
\* the document written has employee_count = 0 and is empty.
C19_ZeroActive ==
    ActiveCount = 0 =>
        /\ pc \in {"main", "exit1", "phase1", "phase2", "loop", "serialize", "done"}
        /\ graph = NoGraph
        /\ phase1 = NoGraph
        /\ requestLog = <<>>
        /\ inFlight = 0
        /\ pc = "done" =>
              /\ output.writes = 1
              /\ output.metadata.employee_count = 0
              /\ output.metadata.node_count = 0
              /\ output.metadata.edge_count = 0
              /\ output.nodes = <<>>
              /\ output.edges = <<>>

\* a finished run with Phase 2 enabled over records that are all
\* inactive, one of them with attribute lists Phase 1 could not process
C19_Witness ==
    /\ pc = "done"
    /\ AiEnabled
    /\ Len(employees) >= 2
    /\ \A i \in 1..Len(employees) : employees[i].isActive = "false"
    /\ \E i \in 1..Len(employees) : employees[i].dominant_strengths = NotAList
    /\ \E i \in 1..Len(employees) : employees[i].dominant_strengths # NotAList
    /\ output.metadata.employee_count = 0

\* the scenario's input: the active employees are A, with strengths
\* [AWS, infurasekkei] and values [jikoseichou], then B, with strengths
\* [AWS] and values [seichou]; neither has topics of interest
Scenario ==
    /\ NumActive = 2
    /\ Items(ActiveOf(employees)[1], "skill") = <<AWS, Infra>>
    /\ Items(ActiveOf(employees)[1], "value") = <<JikoSeichou>>
    /\ Items(ActiveOf(employees)[1], "interest") = <<>>
    /\ Items(ActiveOf(employees)[2], "skill") = <<AWS>>
    /\ Items(ActiveOf(employees)[2], "value") = <<Seichou>>
    /\ Items(ActiveOf(employees)[2], "interest") = <<>>

NodesLabeled(label) ==
    {n \in AttributeNodes : graph.nodes[n].label = label}

SharesEdgesOfGraph == {k \in 1..Len(graph.edges) : graph.edges[k].type = "SHARES"}

\* C20: for the scenario's input buildMechanicalGraph yields one attribute
\* node labeled AWS and one labeled seichou, each with connectedPeople
\* [A, B], no node labeled jikoseichou, and one SHARES edge, from A to B,
\* of weight 2 with shared skills [AWS], values [seichou], interests [].
C20_Scenario ==
    (pc = "phase2" /\ Scenario) =>
        LET A == ActiveOf(employees)[1].name
            B == ActiveOf(employees)[2].name
        IN  /\ Cardinality(NodesLabeled(AWS)) = 1
            /\ \A n \in NodesLabeled(AWS) :
                  graph.nodes[n].connectedPeople = <<A, B>>
            /\ Cardinality(NodesLabeled(Seichou)) = 1
            /\ \A n \in NodesLabeled(Seichou) :
                  graph.nodes[n].connectedPeople = <<A, B>>
            /\ NodesLabeled(JikoSeichou) = {}
            /\ Cardinality(SharesEdgesOfGraph) = 1
            /\ \A k \in SharesEdgesOfGraph :
                  /\ graph.edges[k].source = PersonId(A)
                  /\ graph.edges[k].target = PersonId(B)
                  /\ graph.edges[k].weight = 2
                  /\ graph.edges[k].shared.skills = <<AWS>>
                  /\ graph.edges[k].shared.values = <<Seichou>>
                  /\ graph.edges[k].shared.interests = <<>>

\* Phase 1 has run on the scenario's two employees
C20_Witness ==
    /\ pc = "phase2"
    /\ Scenario
    /\ Len(employees) = 2
    /\ Cardinality(SharesEdgesOfGraph) = 1

DirectionTags == {"AtoB", "BtoA", "mutual"}

\* C21: every MENTORING_FIT edge of the final graph carries a direction
\* tag, one of A-to-B, B-to-A and mutual.
C21_DirectionTag ==
    \A k \in 1..Len(graph.edges) :
        graph.edges[k].type = "MENTORING_FIT" =>
            graph.edges[k].direction \in DirectionTags

SharedCategories == {"skill", "value", "interest"}

\* the attribute nodes with a skill, value or interest category to which
\* two employees are both connected
CommonNodes(a, b) ==
    {n \in AttributeNodes :
        /\ SeqSet(graph.nodes[n].categories) \cap SharedCategories # {}
        /\ Includes(graph.nodes[n].connectedPeople, a.name)
        /\ Includes(graph.nodes[n].connectedPeople, b.name)}

\* the node behind a canonical label shared under a category
BackedByNode(a, b, type, label) ==
    \E n \in AttributeNodes :
        /\ graph.nodes[n].id = AttrId(normalizeForId(label))
        /\ Includes(graph.nodes[n].categories, type)
        /\ Includes(graph.nodes[n].connectedPeople, a.name)
        /\ Includes(graph.nodes[n].connectedPeople, b.name)

\* C23 as stated: the weight of the SHARES edge between two people is the
\* number of attribute nodes with a skill, value or interest category to
\* which both are connected, and two people with such a common node have a
\* SHARES edge.
C23_WeightIsCommonNodes ==
    pc = "phase2" =>
        \A i \in 1..NumActive : \A j \in (i + 1)..NumActive :
            LET a == ActiveOf(employees)[i]
                b == ActiveOf(employees)[j]
            IN  /\ CommonNodes(a, b) # {} => SharesBetween(a, b) # {}
                /\ \A k \in SharesBetween(a, b) :
                      graph.edges[k].weight = Cardinality(CommonNodes(a, b))

\* C23 (amended): the weight of the SHARES edge between two people is the
\* number of canonical labels both list under the same category, summed
\* over skill, value and interest; each of them is an attribute node of
\* that category to which both are connected, so two people with a SHARES
\* edge always have such a common node, and two people without one have
\* no SHARES edge.
C23_SharesWeight ==
    pc = "phase2" =>
        \A i \in 1..NumActive : \A j \in (i + 1)..NumActive :
            LET a == ActiveOf(employees)[i]
                b == ActiveOf(employees)[j]
            IN  /\ \A k \in SharesBetween(a, b) :
                      /\ graph.edges[k].weight = OverlapWeight(a, b)
                      /\ CommonNodes(a, b) # {}
                /\ \A type \in SharedCategories : \A l \in Overlap(a, b, type) :
                      BackedByNode(a, b, type, l)
                /\ CommonNodes(a, b) = {} => SharesBetween(a, b) = {}

\* one pair has a SHARES edge of weight 2 backed by two common nodes;
\* another pair is connected to a common node under different categories
\* and has no SHARES edge
C23_Witness ==
    /\ pc = "phase2"
    /\ \E i, j \in 1..NumActive :
          /\ i < j
          /\ \E k \in SharesBetween(ActiveOf(employees)[i], ActiveOf(employees)[j]) :
                graph.edges[k].weight = 2
          /\ Cardinality(CommonNodes(ActiveOf(employees)[i], ActiveOf(employees)[j])) = 2
    /\ \E i, j \in 1..NumActive :
          /\ i < j
          /\ CommonNodes(ActiveOf(employees)[i], ActiveOf(employees)[j]) # {}
          /\ SharesBetween(ActiveOf(employees)[i], ActiveOf(employees)[j]) = {}

InactiveRecords == {i \in 1..Len(employees) : employees[i].isActive = "false"}

OtherRecords == {i \in 1..Len(employees) : employees[i].isActive # "false"}

\* the node ids, and per node id the categories, that the records which
\* are not inactive account for
IdsOfOthers ==
    {AttrId(normalizeForId(x)) : x \in UNION {LabelsOf(employees[i]) : i \in OtherRecords}}

CategoriesOfOthers(nodeId) ==
    {AttrTypes[t] : t \in UNION {DimensionsOf(employees[i], nodeId) : i \in OtherRecords}}

\* C24: a record with isActive = false has no person node, its name is in
\* no connectedPeople list, no dimension or SHARES edge starts or ends at
\* it, the attribute nodes and their categories are those the other
\* records account for, and no pair sent to the inference service names it.
C24_InactiveContributesNothing ==
    AfterPhase1 =>
        /\ \A i \in InactiveRecords :
              /\ \A n \in 1..Len(graph.nodes) :
                    /\ graph.nodes[n].id # PersonId(employees[i].name)
                    /\ ~Includes(graph.nodes[n].connectedPeople, employees[i].name)
              /\ \A k \in 1..Len(graph.edges) :
                    graph.edges[k].type \in DimensionTypes \cup {"SHARES"} =>
                        /\ graph.edges[k].source # PersonId(employees[i].name)
                        /\ graph.edges[k].target # PersonId(employees[i].name)
              /\ \A k \in 1..Len(pairs) :
                    pairs[k][1] # employees[i].name /\ pairs[k][2] # employees[i].name
              /\ \A k \in 1..Len(requestLog) : \A m \in 1..Len(requestLog[k].pairs) :
                    /\ requestLog[k].pairs[m][1] # employees[i].name
                    /\ requestLog[k].pairs[m][2] # employees[i].name
        /\ {graph.nodes[n].id : n \in AttributeNodes} = IdsOfOthers
        /\ \A n \in AttributeNodes :
              SeqSet(graph.nodes[n].categories) = CategoriesOfOthers(graph.nodes[n].id)

\* a finished run with requests issued, whose input has an inactive record
\* listing a label that no other record lists
C24_Witness ==
    /\ pc = "done"
    /\ requestLog # <<>>
    /\ \E i \in InactiveRecords :
          /\ Includes(Items(employees[i], "skill"), Infra)
          /\ NodesLabeled(Infra) = {}
    /\ AttributeNodes # {}

\* the dimensions, by name, under which an employee lists a label with a
\* given node id
DimensionNamesOf(e, nodeId) ==
    {type \in {"skill", "value", "interest", "motivation"} :
        \E x \in SeqSet(Items(e, type)) : AttrId(normalizeForId(x)) = nodeId}

\* the edge type of the first of a set of dimensions in the order skill,
\* value, interest, motivation
FirstEdgeType(dims) ==
    CASE "skill" \in dims -> "HAS_SKILL"
      [] "value" \in dims -> "VALUES"
      [] "interest" \in dims -> "INTERESTED_IN"
      [] OTHER -> "MOTIVATED_BY"

EdgesFromTo(name, nodeId) ==
    {k \in DimensionEdges :
        graph.edges[k].source = PersonId(name) /\ graph.edges[k].target = nodeId}

\* C25: an active employee, at any position of the input, who lists labels
\* of one node id under several dimensions has one dimension edge to that
\* node, of the type of the first of those dimensions in the order skill,
\* value, interest, motivation; the node carries every one of those
\* dimensions as a category.
C25_FirstDimensionWins ==
    pc = "phase2" =>
        \A i \in 1..NumActive : \A n \in AttributeNodes :
            Cardinality(DimensionNamesOf(ActiveOf(employees)[i], graph.nodes[n].id)) >= 2 =>
                /\ Cardinality(EdgesFromTo(ActiveOf(employees)[i].name,
                                           graph.nodes[n].id)) = 1
                /\ \A k \in EdgesFromTo(ActiveOf(employees)[i].name, graph.nodes[n].id) :
                      graph.edges[k].type
                          = FirstEdgeType(DimensionNamesOf(ActiveOf(employees)[i],
                                                           graph.nodes[n].id))
                /\ DimensionNamesOf(ActiveOf(employees)[i], graph.nodes[n].id)
                       \subseteq SeqSet(graph.nodes[n].categories)

\* the second active employee lists a label as value and as motivation,
\* after the first listed it as skill: the node has the three categories,
\* the second employee's one edge to it is a VALUES edge
C25_Witness ==
    /\ pc = "phase2"
    /\ NumActive >= 2
    /\ DimensionNamesOf(ActiveOf(employees)[1], AttrId(Seichou)) = {"skill"}
    /\ DimensionNamesOf(ActiveOf(employees)[2], AttrId(Seichou)) = {"value", "motivation"}
    /\ \E n \in AttributeNodes :
          /\ graph.nodes[n].id = AttrId(Seichou)
          /\ graph.nodes[n].categories = <<"skill", "value", "motivation">>
    /\ \E k \in EdgesFromTo(ActiveOf(employees)[2].name, AttrId(Seichou)) :
          graph.edges[k].type = "VALUES"

NodeIds == {graph.nodes[n].id : n \in 1..Len(graph.nodes)}

PersonIds == {graph.nodes[n].id : n \in PersonNodesOf(graph.nodes)}

AttributeIds == {graph.nodes[n].id : n \in AttributeNodes}

EndpointsIn(edge, sources, targets) ==
    edge.source \in sources /\ edge.target \in targets

\* every edge buildMechanicalGraph produced joins nodes of the graph:
\* dimension edges a person and an attribute, SHARES edges two persons
Phase1EdgesIntact ==
    AfterPhase1 =>
        \A k \in 1..Len(phase1.edges) :
            IF phase1.edges[k].type \in DimensionTypes
            THEN EndpointsIn(phase1.edges[k], PersonIds, AttributeIds)
            ELSE EndpointsIn(phase1.edges[k], PersonIds, PersonIds)

\* C26: after Phase 1 and after Phase 2, whatever the batches' outcomes,
\* the source and the target of every edge are ids of nodes of the graph:
\* a dimension edge goes from a person node to an attribute node, a SHARES
\* edge and an AI-generated edge join two person nodes.
C26_ReferentialIntegrity ==
    AfterPhase1 =>
        \A k \in 1..Len(graph.edges) :
            /\ EndpointsIn(graph.edges[k], NodeIds, NodeIds)
            /\ IF graph.edges[k].type \in DimensionTypes
               THEN EndpointsIn(graph.edges[k], PersonIds, AttributeIds)
               ELSE EndpointsIn(graph.edges[k], PersonIds, PersonIds)

\* the AI edges collected so far between two people, in either direction
AiEdgesBetween(a, b) ==
    {m \in 1..Len(aiEdges) :
        {aiEdges[m].source, aiEdges[m].target} = {PersonId(a), PersonId(b)}}

\* C27: every AI edge a batch produced joins the two people of one of the
\* pairs sent in that batch; a pair gets at most one edge of each AI type
\* from its batch, a batch adds at most 15 edges, and the run adds at most
\* 3 AI edges per pair of active employees.
C27_EdgesWithinBatch ==
    /\ \A k \in 1..Len(batchLog) :
          /\ \A m \in 1..Len(Segment(k)) :
                \E n \in 1..Len(requestLog[k].pairs) :
                    /\ Segment(k)[m].source = PersonId(requestLog[k].pairs[n][1])
                    /\ Segment(k)[m].target = PersonId(requestLog[k].pairs[n][2])
          /\ \A n \in 1..Len(requestLog[k].pairs) : \A t \in AiTypes :
                Cardinality(PairEdges(Segment(k), requestLog[k].pairs[n][1],
                                      requestLog[k].pairs[n][2], t)) <= 1
          /\ Len(batchLog[k].added) <= 3 * BATCH_SIZE
    /\ \A n \in 1..Len(pairs) :
          Cardinality(AiEdgesBetween(pairs[n][1], pairs[n][2])) <= 3

RECURSIVE SumOfMembers(_)
\* the lengths of the connectedPeople lists of a node list, added up
SumOfMembers(nodes) ==
    IF nodes = <<>> THEN 0
    ELSE Len(Head(nodes).connectedPeople) + SumOfMembers(Tail(nodes))

\* C28: after buildMechanicalGraph a name is in connectedPeople of an
\* attribute node iff a dimension edge goes from that person to the node;
\* every attribute node has a category, a connected person and an incoming
\* dimension edge; and there are as many dimension edges as the
\* connectedPeople lists have entries.
C28_MembersMatchEdges ==
    pc = "phase2" =>
        /\ \A n \in AttributeNodes : \A i \in 1..NumActive :
              Includes(graph.nodes[n].connectedPeople, ActiveOf(employees)[i].name)
                  <=> EdgesFromTo(ActiveOf(employees)[i].name, graph.nodes[n].id) # {}
        /\ \A n \in AttributeNodes :
              /\ SeqSet(graph.nodes[n].connectedPeople)
                     \subseteq {ActiveOf(employees)[i].name : i \in 1..NumActive}
              /\ graph.nodes[n].categories # <<>>
              /\ graph.nodes[n].connectedPeople # <<>>
              /\ \E k \in DimensionEdges : graph.edges[k].target = graph.nodes[n].id
        /\ \A k \in DimensionEdges :
              /\ graph.edges[k].target \in AttributeIds
              /\ graph.edges[k].source \in PersonIds
        /\ Cardinality(DimensionEdges) = SumOfMembers(graph.nodes)

\* three active employees, a node with three members and a node one
\* employee references under two dimensions
C28_Witness ==
    /\ pc = "phase2"
    /\ NumActive = 3
    /\ \E n \in AttributeNodes : Len(graph.nodes[n].connectedPeople) = 3
    /\ \E n \in AttributeNodes : Len(graph.nodes[n].categories) >= 2
    /\ Cardinality(DimensionEdges) = SumOfMembers(graph.nodes)
    /\ Cardinality(DimensionEdges) >= 5

\* enhanceWithAI went past its two early returns
Phase2Activated == url # ""

Phase2Decided == pc \in {"loop", "fetch", "sleep", "serialize", "done"}

\* C29: ai_enhanced is true iff there is no --skip-ai flag and the API key
\* and the project id are present, which is exactly when enhanceWithAI
\* went past its early returns; without an endpoint id the fallback model
\* is selected; the number of pairs, the batches' outcomes and the AI
\* edges have no part in it.
C29_AiEnhancedFlag ==
    /\ Phase2Decided =>
          /\ Phase2Activated <=> (~env.SKIP_AI /\ env.API_KEY /\ env.PROJECT_ID)
          /\ Phase2Activated =>
                url = (IF env.ENDPOINT_ID THEN "endpoint" ELSE "gemini-1.5-pro-002")
    /\ ~Phase2Activated => requestLog = <<>>
    /\ pc = "done" =>
          /\ output.metadata.ai_enhanced
                 <=> (~env.SKIP_AI /\ env.API_KEY /\ env.PROJECT_ID)
          /\ output.metadata.ai_enhanced <=> Phase2Activated

\* a document with ai_enhanced = true written by a run without an endpoint
\* id whose only batch failed and that added no AI edge
C29_Witness ==
    /\ pc = "done"
    /\ output.metadata.ai_enhanced
    /\ ~env.ENDPOINT_ID
    /\ url = "gemini-1.5-pro-002"
    /\ Len(batchLog) = 1
    /\ batchLog[1].outcome = "http"
    /\ aiEdges = <<>>

\* the positions of a name in a list
PositionsOf(emps, name) == {k \in 1..Len(emps) : emps[k].name = name}

OthersUnchanged(k) ==
    /\ Len(employees) = Len(issue.before)
    /\ \A l \in 1..Len(employees) : l # k => employees[l] = issue.before[l]

\* C30: the names of the store stay pairwise distinct whatever updates and
\* deletes are applied; an update of an existing name changes that record
\* in place and sets isActive = true, an update of a new name appends one
\* record; a delete with a Delete action removes exactly the matching
\* record, a delete with another action sets isActive = false on exactly
\* that record and keeps it, a delete of an unknown name changes nothing.
C30_StoreNamesDistinct ==
    pc = "store" =>
        /\ PairwiseDistinctNames(employees)
        /\ issue.op = "updateEmployee" =>
              IF PositionsOf(issue.before, issue.name) # {}
              THEN \A k \in PositionsOf(issue.before, issue.name) :
                       /\ OthersUnchanged(k)
                       /\ employees[k].name = issue.name
                       /\ employees[k].isActive = "true"
              ELSE /\ Len(employees) = Len(issue.before) + 1
                   /\ SubSeq(employees, 1, Len(issue.before)) = issue.before
                   /\ employees[Len(employees)].name = issue.name
                   /\ employees[Len(employees)].isActive = "true"
        /\ issue.op = "deleteEmployee" =>
              IF PositionsOf(issue.before, issue.name) = {}
              THEN employees = issue.before /\ ~issue.raised
              ELSE \A k \in PositionsOf(issue.before, issue.name) :
                       /\ Includes(issue.action_type, "Delete") =>
                             /\ Len(employees) = Len(issue.before) - 1
                             /\ \A l \in 1..(k - 1) : employees[l] = issue.before[l]
                             /\ \A l \in k..Len(employees) :
                                   employees[l] = issue.before[l + 1]
                             /\ PositionsOf(employees, issue.name) = {}
                       /\ (issue.action_type # NoAction
                           /\ ~Includes(issue.action_type, "Delete")) =>
                             /\ OthersUnchanged(k)
                             /\ employees[k]
                                    = [issue.before[k] EXCEPT !.isActive = "false"]

\* an update has just re-activated the archived second record of a store
\* of two
C30_Witness ==
    /\ pc = "store"
    /\ issue.op = "updateEmployee"
    /\ Len(employees) = 2
    /\ Len(issue.before) = 2
    /\ \E k \in PositionsOf(issue.before, issue.name) :
          /\ issue.before[k].isActive = "false"
          /\ employees[k].isActive = "true"
          /\ k = 2

=============================================================================
